---- MODULE Spec2Model ----
(***************************************************************************)
(* A model of pygit2_utils.GitRepo (src/pygit2_utils/__init__.py): the     *)
(* wrapper's commit, merge and diff methods over a git repository made of  *)
(* a commit store, references, HEAD, the staging index and the working     *)
(* tree.  The calls the wrapper forwards to the git library (merge         *)
(* analysis, tree merge, create_commit, tree diff) are modelled by what    *)
(* the library release the wrapper is written against does.                *)
(***************************************************************************)
EXTENDS Integers, Sequences, FiniteSets, TLC

\* ------------------------------------------------------------------ bounds
\* The commit store holds at most MaxCommits commit objects.
MaxCommits == 4
\* The user edits the working tree at most MaxEdits times.
MaxEdits == 1
\* How many commit ids a list given to get_patch holds at most.
MaxIds == 2
\* How many times the library is called to clone at most.
MaxClones == 2

\* ------------------------------------------------------------- value sets
\* Tracked paths of the model repository.
Paths == {"a", "b"}
\* A file name that exists nowhere in the working tree.
MissingFile == "zz"
\* A file is two independent regions (hunks) of text; a region's text is a
\* number.  NoFile stands for "no such file / no such tree entry".
NoFile == <<>>
BaseText == <<1, 1>>
\* What the user's editor writes into the working tree: file a gets two
\* different rewrites of its first region and one of its second, file b one
\* rewrite of its first region.
Edits(p) == IF p = "a" THEN {<<1, 1>>, <<2, 1>>, <<3, 1>>, <<1, 2>>}
            ELSE {<<1, 1>>, <<2, 1>>}
\* Python's None for an optional argument.
None == "None"
\* Object id 0 names no object; a reference with target 0 does not exist.
NoId == 0

Branches == {"master", "feature"}
FullName(b) == "refs/heads/" \o b
\* A local branch may be named like a remote-tracking one.
SlashBranch == "origin/master"
LocalNames == Branches \cup {SlashBranch}
RefNames == {FullName(b) : b \in LocalNames}
\* Remote-tracking branches, by the name lookup_branch knows them under.
RemoteNames == {"origin/master", "origin/feature"}
TagNames == {"v0", "refs/tags/v0"}

\* Destination paths of a clone.  On the disk of the tests the first is a
\* directory with the fixture repositories in it and the second does not
\* exist.
DestPaths == {"gitroot", "gitroot/cloned_repo"}
TestDisk ==
  [fs |-> [d \in DestPaths |-> IF d = "gitroot" THEN "dir" ELSE "absent"],
   clones |-> 0, ignored |-> {}]

VARIABLES
  commits,    \* the commit store: commits[i] is the commit object with id i
  refs,       \* RefNames -> commit id, NoId when the reference does not exist
  HEAD,       \* attached: [sym |-> reference name, oid |-> NoId];
              \* detached: [sym |-> "", oid |-> commit id]
  index,      \* staging index: [entries: Paths -> content, conflicts: SUBSET Paths]
  worktree,   \* working tree: Paths -> content
  config,     \* the repository configuration: user.name, user.email
  remotes,    \* remote-tracking branches: RemoteNames -> commit id, or NoId
  tags,       \* tag objects, and TagNames -> the tag object of refs/tags/<name>
  edits,      \* how many times the user has edited the working tree
  call,       \* the call of the wrapper that is being made, with its arguments
  frames,     \* per concurrent caller: where its call stands and its locals
  last,       \* the last call of the wrapper: operation, outcome, returned value
  disk        \* the filesystem: what is at each destination path, how many
              \* times the library was called to clone, and the paths of the
              \* working tree the ignore rules match

vars == <<commits, refs, HEAD, index, worktree, config, remotes, tags, edits, call,
          frames, last, disk>>

\* ------------------------------------------------------- trees and files
EmptyTree == [p \in Paths |-> NoFile]

\* pygit2.Signature(name, email)
Signature(name, email) == [name |-> name, email |-> email]

\* A commit message: a literal text, or a format with its two arguments.
Text(s) == [fmt |-> s, a1 |-> NoId, a2 |-> ""]
\* 'Merge %s into %s' % (commitid, branch_name)
DefaultMergeMessage(commitid, branch_name) ==
  [fmt |-> "Merge %s into %s", a1 |-> commitid, a2 |-> branch_name]

\* The files argument of commit: one name, or a list of names.
OneName(f) == [isList |-> FALSE, name |-> f, list |-> <<>>]
NameList(fs) == [isList |-> TRUE, name |-> "", list |-> fs]

\* if not isinstance(files, list): files = [files]
NormalizeFiles(files) == IF files.isList THEN files.list ELSE <<files.name>>

\* index.add(filename): stage the working-tree content of one path; adding
\* a conflicted path resolves its conflict.  A file that is not in the
\* working tree cannot be added.
CanAdd(wt, f) == f \in Paths /\ wt[f] # NoFile
IndexAdd(idx, wt, f) ==
  [entries |-> [idx.entries EXCEPT ![f] = wt[f]],
   conflicts |-> idx.conflicts \ {f}]

\* for filename in files: self.repository.index.add(filename)
\* The loop stops at the first file that cannot be added; the entries staged
\* before it stay in the index.
RECURSIVE AddFiles(_, _, _)
AddFiles(idx, wt, fs) ==
  IF fs = <<>> THEN [index |-> idx, ok |-> TRUE]
  ELSE IF ~CanAdd(wt, Head(fs)) THEN [index |-> idx, ok |-> FALSE]
  ELSE AddFiles(IndexAdd(idx, wt, Head(fs)), wt, Tail(fs))

\* A variant that writes a tree without entries.
WriteTreeEmpty(idx) == [p \in Paths |-> NoFile]

\* index.write_tree(): the tree of the staged entries.
WriteTree(idx) == idx.entries

\* ------------------------------------------------------------ references
Exists(c) == c \in 1..Len(commits)

\* revparse_single('HEAD'): the commit HEAD resolves to, NoId when unborn.
HeadCommit == IF HEAD.sym = "" THEN HEAD.oid ELSE refs[HEAD.sym]

\* create_commit(ref, author, committer, message, tree, parents): store a new
\* commit object and point ref at it, whatever ref pointed at before.
NewCommit(author, committer, message, tree, parents) ==
  [tree |-> tree, parents |-> parents, message |-> message,
   author |-> author, committer |-> committer]

\* A variant that never falls back on the configuration.
DefaultToGiven(value, configured) == value

\* config.get_multivar(key)[0]
DefaultTo(value, configured) == IF value = None THEN configured ELSE value

\* ------------------------------------------------------------ commit graph
\* The commits reachable from c by parent links, c included.
RECURSIVE AncestorsOf(_)
AncestorsOf(c) ==
  {c} \cup UNION {AncestorsOf(commits[c].parents[i]) :
                     i \in 1..Len(commits[c].parents)}

IsAncestor(a, b) == a \in AncestorsOf(b)

Max(S) == CHOOSE x \in S : \A y \in S : y <= x

\* The merge base the library picks: a common ancestor that is no ancestor of
\* another common ancestor, the most recent one of them; NoId when the two
\* histories are unrelated.
MergeBase(a, b) ==
  LET common == AncestorsOf(a) \cap AncestorsOf(b)
      best == {x \in common : \A y \in common \ {x} : ~IsAncestor(x, y)}
  IN IF best = {} THEN NoId ELSE Max(best)

TreeOf(c) == IF c = NoId THEN EmptyTree ELSE commits[c].tree

\* A variant that lets our side win where both sides changed a region.
MergeRegionOursWins(base, ours, theirs) == IF ours = base THEN theirs ELSE ours

\* --------------------------------------------------------- three-way merge
\* One region of a file: the side that changed it wins; two different
\* changes of the same region conflict (0).
MergeRegion(base, ours, theirs) ==
  IF ours = theirs THEN ours
  ELSE IF ours = base THEN theirs
  ELSE IF theirs = base THEN ours
  ELSE 0

\* One path.  A path one side left alone takes the other side's version; a
\* path both sides changed is merged region by region when the file exists
\* in the base and on both sides, and conflicts otherwise.
MergeFile(base, ours, theirs) ==
  IF ours = theirs THEN [text |-> ours, conflict |-> FALSE]
  ELSE IF ours = base THEN [text |-> theirs, conflict |-> FALSE]
  ELSE IF theirs = base THEN [text |-> ours, conflict |-> FALSE]
  ELSE IF base = NoFile \/ ours = NoFile \/ theirs = NoFile
       THEN [text |-> NoFile, conflict |-> TRUE]
  ELSE LET r == [i \in 1..2 |-> MergeRegion(base[i], ours[i], theirs[i])]
       IN IF r[1] = 0 \/ r[2] = 0
          THEN [text |-> NoFile, conflict |-> TRUE]
          ELSE [text |-> <<r[1], r[2]>>, conflict |-> FALSE]

\* The merged index of three trees: the merged entries and the conflicted
\* paths (a conflicted path has no merged entry).
MergeTrees(base, ours, theirs) ==
  LET m == [p \in Paths |-> MergeFile(base[p], ours[p], theirs[p])]
  IN [entries |-> [p \in Paths |-> m[p].text],
      conflicts |-> {p \in Paths : m[p].conflict}]

\* The paths whose merged entry differs from the entry of the checked-out
\* commit, conflicted paths included.
ChangedPaths(ours, merged) ==
  {p \in Paths : p \in merged.conflicts \/ merged.entries[p] # ours[p]}

\* The merge is refused when a path it changes has staged changes (the index
\* differs from the checked-out commit) or unstaged ones (the working tree
\* differs from the index).
MergeRefused(ours, merged) ==
  \E p \in ChangedPaths(ours, merged) :
     \/ p \in index.conflicts
     \/ index.entries[p] # ours[p]
     \/ worktree[p] # index.entries[p]

\* A variant that finds the merge up to date only at the tip itself.
IsUpToDateAtTipOnly(base, ours, theirs) == ours = theirs

\* The merge analysis: up to date when the merge base is the commit to merge.
IsUpToDate(base, ours, theirs) == base = theirs

\* A variant that never finds a fast-forward.
IsFastForwardNever(base, ours, theirs) == FALSE

\* Fast-forward when the merge base is the checked-out commit.
IsFastForward(base, ours, theirs) == base = ours

\* Repository.merge(oid): the analysis of oid against the commit HEAD
\* resolves to and, when the merge is neither up to date nor a fast-forward,
\* the merge of the two trees into the index and the working tree.  Nothing
\* is changed in the up-to-date and fast-forward cases.  The merged entries
\* replace those of the changed paths in the index and, where they do not
\* conflict, in the working tree.
LibMerge(commitid) ==
  LET ours == HeadCommit
      base == MergeBase(ours, commitid)
      merged == MergeTrees(TreeOf(base), TreeOf(ours), TreeOf(commitid))
      changed == ChangedPaths(TreeOf(ours), merged)
      same == [status |-> "", index |-> index, worktree |-> worktree]
  IN IF ~Exists(commitid) THEN [same EXCEPT !.status = "KeyError"]
     ELSE IF ours = NoId THEN [same EXCEPT !.status = "GitError"]
     ELSE IF IsUpToDate(base, ours, commitid) THEN [same EXCEPT !.status = "uptodate"]
     ELSE IF IsFastForward(base, ours, commitid)
          THEN [same EXCEPT !.status = "fastforward"]
     ELSE IF MergeRefused(TreeOf(ours), merged) THEN [same EXCEPT !.status = "GitError"]
     ELSE [status |-> "merged",
           index |-> [entries |-> [p \in Paths |->
                         IF p \in changed THEN merged.entries[p]
                         ELSE index.entries[p]],
                      conflicts |-> index.conflicts \cup merged.conflicts],
           worktree |-> [p \in Paths |->
                         IF p \in changed \ merged.conflicts
                         THEN merged.entries[p] ELSE worktree[p]]]

\* lookup_reference(name): a one-level name is no valid reference name
\* (ValueError); a valid name that no reference has is a KeyError.
OneLevel(name) == name \notin RefNames
LookupReference(name) ==
  IF OneLevel(name) THEN "ValueError"
  ELSE IF refs[name] = NoId THEN "KeyError"
  ELSE name

\* try: lookup_reference(branch_name)
\* except ValueError: lookup_reference('refs/heads/%s' % branch_name)
BranchRef(branch_name) ==
  IF LookupReference(branch_name) # "ValueError"
  THEN LookupReference(branch_name)
  ELSE IF FullName(branch_name) \in RefNames /\ refs[FullName(branch_name)] # NoId
       THEN FullName(branch_name)
       ELSE "KeyError"

\* --------------------------------------------------------------- actions
\* No call is being made.
NoCall == [op |-> "none"]

\* No tag object and no tag reference.
NoTags == [objs |-> <<>>, refs |-> [t \in TagNames |-> NoId]]

\* Concurrent callers, and the frame of a caller that is making no call.
Callers == {1, 2}
Idle == [pc |-> "idle", op |-> "none", files |-> NameList(<<>>), branch |-> "",
         commitid |-> NoId, tree |-> EmptyTree, parent |-> NoId, status |-> ""]

\* The user edits a file of the working tree (outside the wrapper).
WriteFile(p, text) ==
  /\ call.op = "none"
  /\ edits < MaxEdits
  /\ worktree[p] # text
  /\ worktree' = [worktree EXCEPT ![p] = text]
  /\ edits' = edits + 1
  /\ UNCHANGED <<commits, refs, HEAD, index, config, remotes, disk, tags, call, frames, last>>

\* GitRepo.commit(message, files, branch, username, useremail)
Commit(message, files, branch, username, useremail) ==
  LET added == AddFiles(index, worktree, NormalizeFiles(files))
      author == Signature(DefaultTo(username, config.name),
                          DefaultTo(useremail, config.email))
      parents == IF HeadCommit # NoId THEN <<HeadCommit>> ELSE <<>>
      new == Len(commits) + 1
  IN /\ index' = added.index
     /\ IF ~added.ok
        THEN /\ last' = [op |-> "commit", outcome |-> "IndexAddError", ret |-> NoId]
             /\ UNCHANGED <<commits, refs>>
        ELSE IF added.index.conflicts # {}
        THEN /\ last' = [op |-> "commit", outcome |-> "GitError", ret |-> NoId]
             /\ UNCHANGED <<commits, refs>>
        ELSE /\ commits' = Append(commits,
                  NewCommit(author, author, message, WriteTree(added.index), parents))
             /\ refs' = [refs EXCEPT ![FullName(branch)] = new]
             /\ last' = [op |-> "commit", outcome |-> "ok", ret |-> new]
     /\ UNCHANGED <<HEAD, worktree, config, remotes, disk, tags, edits, frames>>

\* A variant with the parents in the other order.
MergeParentsReversed(parent, commitid) == <<commitid, parent>>

\* [parent, commitid]: the parents of the merge commit.
MergeParents(parent, commitid) == <<parent, commitid>>

\* The message of the merge commit.
MergeMessage(commitid, branch_name, message) ==
  IF message = None THEN DefaultMergeMessage(commitid, branch_name)
  ELSE Text(message)

\* GitRepo.merge(commitid, branch_name, message, username, useremail)
Merge(commitid, branch_name, message, username, useremail) ==
  LET msg == MergeMessage(commitid, branch_name, message)
      branch_ref == BranchRef(branch_name)
      parent == HeadCommit
      author == Signature(DefaultTo(username, config.name),
                          DefaultTo(useremail, config.email))
      new == Len(commits) + 1
      Raise(e) == /\ last' = [op |-> "merge", outcome |-> e, ret |-> NoId]
                  /\ UNCHANGED <<commits, refs>>
  IN \E merge \in {LibMerge(commitid)} :
     /\ index' = merge.index
     /\ worktree' = merge.worktree
     /\ IF merge.status \in {"KeyError", "GitError"} THEN Raise(merge.status)
        ELSE IF branch_ref = "KeyError" THEN Raise("KeyError")
        ELSE IF merge.status = "uptodate" THEN Raise("NothingToMergeError")
        ELSE IF merge.status = "fastforward"
        THEN /\ refs' = [refs EXCEPT ![branch_ref] = commitid]
             /\ last' = [op |-> "merge", outcome |-> "fastforward", ret |-> commitid]
             /\ UNCHANGED commits
        ELSE IF merge.index.conflicts # {} THEN Raise("MergeConflictsError")
        ELSE /\ commits' = Append(commits,
                  NewCommit(author, author, msg, WriteTree(merge.index),
                            MergeParents(parent, commitid)))
             /\ refs' = [refs EXCEPT ![HEAD.sym] = new]
             /\ last' = [op |-> "merge", outcome |-> "merged", ret |-> new]
     /\ UNCHANGED <<HEAD, config, remotes, disk, tags, edits, frames>>

\* ------------------------------------------------- concurrent callers
\* Two callers run commit and merge on one repository, each call as the
\* sequence of its library calls, interleaved with those of the other.

\* The author of a call given no username and no useremail.
ConfiguredAuthor ==
  Signature(DefaultTo(None, config.name), DefaultTo(None, config.email))

\* The frame of caller k is replaced.
SetFrame(k, f) == frames' = [frames EXCEPT ![k] = f]

\* Caller k's call ends, raising e or returning ret.
Finish(k, outcome, ret) ==
  /\ SetFrame(k, Idle)
  /\ last' = [op |-> frames[k].op, outcome |-> outcome, ret |-> ret]

\* commit, the index.add loop, index.write and index.write_tree.
CommitStage(k) ==
  LET added == AddFiles(index, worktree, NormalizeFiles(frames[k].files))
  IN /\ frames[k].pc = "called" /\ frames[k].op = "commit"
     /\ index' = added.index
     /\ IF ~added.ok THEN Finish(k, "IndexAddError", NoId)
        ELSE IF added.index.conflicts # {} THEN Finish(k, "GitError", NoId)
        ELSE /\ SetFrame(k, [frames[k] EXCEPT !.pc = "staged",
                                              !.tree = WriteTree(added.index)])
             /\ UNCHANGED last
     /\ UNCHANGED <<commits, refs, HEAD, worktree, config, remotes, disk, tags, edits, call>>

\* commit, parent = revparse_single('HEAD').
CommitReadHead(k) ==
  /\ frames[k].pc = "staged" /\ frames[k].op = "commit"
  /\ SetFrame(k, [frames[k] EXCEPT !.pc = "read", !.parent = HeadCommit])
  /\ UNCHANGED <<commits, refs, HEAD, index, worktree, config, remotes, disk, tags, edits, call, last>>

\* commit, create_commit(ref, ...): the commit is stored and the reference
\* set to it, whatever the reference holds.
CommitCreate(k) ==
  LET parents == IF frames[k].parent # NoId THEN <<frames[k].parent>> ELSE <<>>
      new == Len(commits) + 1
  IN /\ frames[k].pc = "read" /\ frames[k].op = "commit"
     /\ commits' = Append(commits,
                     NewCommit(ConfiguredAuthor, ConfiguredAuthor, Text("Commit from the tests"),
                               frames[k].tree, parents))
     /\ refs' = [refs EXCEPT ![FullName(frames[k].branch)] = new]
     /\ Finish(k, "ok", new)
     /\ UNCHANGED <<HEAD, index, worktree, config, remotes, disk, tags, edits, call>>

\* merge, self.repository.merge(commitid).
MergeAnalyse(k) ==
  /\ frames[k].pc = "called" /\ frames[k].op = "merge"
  /\ \E merge \in {LibMerge(frames[k].commitid)} :
        /\ index' = merge.index
        /\ worktree' = merge.worktree
        /\ IF merge.status \in {"KeyError", "GitError"}
           THEN Finish(k, merge.status, NoId)
           ELSE /\ SetFrame(k, [frames[k] EXCEPT !.pc = "analysed",
                                                 !.status = merge.status])
                /\ UNCHANGED last
  /\ UNCHANGED <<commits, refs, HEAD, config, remotes, disk, tags, edits, call>>

\* merge, the lookup of the branch and parent = revparse_single('HEAD').
MergeReadHead(k) ==
  /\ frames[k].pc = "analysed" /\ frames[k].op = "merge"
  /\ IF BranchRef(frames[k].branch) = "KeyError" THEN Finish(k, "KeyError", NoId)
     ELSE /\ SetFrame(k, [frames[k] EXCEPT !.pc = "read", !.parent = HeadCommit])
          /\ UNCHANGED last
  /\ UNCHANGED <<commits, refs, HEAD, index, worktree, config, remotes, disk, tags, edits, call>>

\* merge, what follows by the result of the analysis: the error, the
\* reference set to commitid, or the merge commit stored and the reference
\* HEAD names set to it, whatever the reference holds.
MergeFinish(k) ==
  LET new == Len(commits) + 1
      f == frames[k]
  IN /\ f.pc = "read" /\ f.op = "merge"
     /\ IF f.status = "uptodate"
        THEN Finish(k, "NothingToMergeError", NoId) /\ UNCHANGED <<commits, refs>>
        ELSE IF f.status = "fastforward"
        THEN /\ refs' = [refs EXCEPT ![BranchRef(f.branch)] = f.commitid]
             /\ Finish(k, "fastforward", f.commitid)
             /\ UNCHANGED commits
        ELSE IF index.conflicts # {}
        THEN Finish(k, "MergeConflictsError", NoId) /\ UNCHANGED <<commits, refs>>
        ELSE /\ commits' = Append(commits,
                  NewCommit(ConfiguredAuthor, ConfiguredAuthor,
                            DefaultMergeMessage(f.commitid, f.branch),
                            WriteTree(index), MergeParents(f.parent, f.commitid)))
             /\ refs' = [refs EXCEPT ![HEAD.sym] = new]
             /\ Finish(k, "merged", new)
     /\ UNCHANGED <<HEAD, index, worktree, config, remotes, disk, tags, edits, call>>

\* -------------------------------------------------------------------- diff
\* A commit id argument: an id, Python's None, or a string too short to be
\* an id (like 'foo').
NoArg == -1
ShortId == -2

PathSeq == <<"a", "b">>

Delta(p, old, new) ==
  [path |-> p,
   kind |-> IF old = NoFile THEN "added"
            ELSE IF new = NoFile THEN "deleted" ELSE "modified",
   old |-> old, new |-> new]

\* The library's tree-to-tree diff: the entries of the two trees are walked
\* in path order; an entry of b alone is added, of a alone deleted, of both
\* with different content modified; equal entries are skipped.
RECURSIVE TreeDiffFrom(_, _, _)
TreeDiffFrom(i, a, b) ==
  IF i > Len(PathSeq) THEN <<>>
  ELSE LET p == PathSeq[i]
       IN IF a[p] = b[p] THEN TreeDiffFrom(i + 1, a, b)
          ELSE <<Delta(p, a[p], b[p])>> \o TreeDiffFrom(i + 1, a, b)

\* A variant that diffs from b to a.
TreeDiffBackwards(a, b) == TreeDiffFrom(1, b, a)
TreeDiff(a, b) == TreeDiffFrom(1, a, b)

\* swap=True: the two sides of every delta change places.
SwapDiff(d) == [i \in 1..Len(d) |-> Delta(d[i].path, d[i].new, d[i].old)]

\* A variant that ignores swap.
DiffToTreeUnswapped(tree, swap) == TreeDiff(tree, EmptyTree)

\* commit.tree.diff_to_tree(swap=True): the diff of the tree against the
\* empty tree, sides swapped.
DiffToTree(tree, swap) ==
  IF swap THEN SwapDiff(TreeDiff(tree, EmptyTree)) ELSE TreeDiff(tree, EmptyTree)

\* What diff returns: a Diff object with its deltas, or the string ''.
DiffObject(d) == [isDiff |-> TRUE, deltas |-> d]
EmptyString == [isDiff |-> FALSE, deltas |-> <<>>]

Returned(v) == [outcome |-> "ok", ret |-> v]
\* A variant that swallows the error and returns the empty result.
RaisedAsEmpty(e) == [outcome |-> "ok", ret |-> EmptyString]

Raised(e) == [outcome |-> e, ret |-> EmptyString]

\* GitRepo.diff(commitid1, commitid2): what the call returns or raises.
DiffResult(commitid1, commitid2) ==
  IF commitid1 = NoArg /\ commitid2 = NoArg
  THEN Returned(DiffObject(TreeDiff(index.entries, worktree)))
  ELSE IF NoArg \in {commitid1, commitid2}
  THEN LET commitid == IF commitid1 # NoArg THEN commitid1 ELSE commitid2
       IN IF commitid = ShortId THEN Raised("ValueError")
          ELSE IF ~Exists(commitid) THEN Raised("NoSuchRefError")
          ELSE IF Len(commits[commitid].parents) > 1 THEN Returned(EmptyString)
          ELSE IF Len(commits[commitid].parents) = 1
          THEN Returned(DiffObject(TreeDiff(TreeOf(commits[commitid].parents[1]),
                                            TreeOf(commitid))))
          ELSE Returned(DiffObject(DiffToTree(TreeOf(commitid), TRUE)))
  ELSE IF ~Exists(commitid1) \/ ~Exists(commitid2) THEN Raised("KeyError")
  ELSE Returned(DiffObject(TreeDiff(TreeOf(commitid1), TreeOf(commitid2))))

\* The call changes nothing in the repository; its result and its arguments
\* are recorded.
Diff(commitid1, commitid2) ==
  /\ last' = [op |-> "diff", outcome |-> DiffResult(commitid1, commitid2).outcome,
              ret |-> DiffResult(commitid1, commitid2).ret,
              args |-> <<commitid1, commitid2>>]
  /\ UNCHANGED <<commits, refs, HEAD, index, worktree, config, remotes, disk, tags, edits, frames>>

\* ----------------------------------------------------------- list_branches
\* A variant that takes a status left out for 'local'.
DefaultStatusLocal(status) == IF status = None THEN "local" ELSE status

\* A status argument left out takes the default of the signature.
DefaultStatus(status) == IF status = None THEN "all" ELSE status

\* statuses = ['remote', 'local', 'all']
Statuses == <<"remote", "local", "all">>

\* The branch names in the order of their references.
LocalSeq == <<"feature", "master", "origin/master">>
RemoteSeq == <<"origin/feature", "origin/master">>

IsLocal(b) == b \in LocalNames /\ refs[FullName(b)] # NoId
IsRemote(b) == b \in RemoteNames /\ remotes[b] # NoId

\* listall_branches(flags): the names of the branches of the kinds asked for,
\* local branches by their name after refs/heads/, remote-tracking ones by
\* their name after refs/remotes/.
ListallBranches(local, remote) ==
  (IF local THEN SelectSeq(LocalSeq, IsLocal) ELSE <<>>)
    \o (IF remote THEN SelectSeq(RemoteSeq, IsRemote) ELSE <<>>)

\* GitRepo.list_branches(status): what the call returns or raises.
ListBranchesResult(status) ==
  LET st == DefaultStatus(status)
  IN IF \A i \in 1..Len(Statuses) : Statuses[i] # st
     THEN [outcome |-> "ValueError", ret |-> Statuses]
     ELSE IF st = "remote" THEN [outcome |-> "ok", ret |-> ListallBranches(FALSE, TRUE)]
     ELSE IF st = "local" THEN [outcome |-> "ok", ret |-> ListallBranches(TRUE, FALSE)]
     ELSE [outcome |-> "ok", ret |-> ListallBranches(TRUE, TRUE)]

\* The call changes nothing in the repository.
ListBranches(status) ==
  /\ last' = [op |-> "list_branches", outcome |-> ListBranchesResult(status).outcome,
              ret |-> ListBranchesResult(status).ret, args |-> <<status>>]
  /\ UNCHANGED <<commits, refs, HEAD, index, worktree, config, remotes, disk, tags, edits,
                 frames>>

\* ---------------------------------------------------------- tag, list_tags
\* str.startswith(prefix)
StartsWith(s, prefix) ==
  Len(s) >= Len(prefix) /\ SubSeq(s, 1, Len(prefix)) = prefix

\* str.replace(old, new): every occurrence of old, from the left.
RECURSIVE Replace(_, _, _)
Replace(s, old, new) ==
  IF Len(s) < Len(old) THEN s
  ELSE IF SubSeq(s, 1, Len(old)) = old
       THEN new \o Replace(SubSeq(s, Len(old) + 1, Len(s)), old, new)
       ELSE SubSeq(s, 1, 1) \o Replace(SubSeq(s, 2, Len(s)), old, new)

\* The tag names in the order of their references.
TagSeq == <<"refs/tags/v0", "v0">>

HasTag(t) == tags.refs[t] # NoId

RemoteRef(b) == "refs/remotes/" \o b
TagRef(t) == "refs/tags/" \o t

\* [f(seq[1]), ..., f(seq[n])]
Map(f(_), seq) == [i \in 1..Len(seq) |-> f(seq[i])]

\* listall_references(): the names of all the references there are.
ListallReferences ==
  Map(FullName, SelectSeq(LocalSeq, IsLocal))
    \o Map(RemoteRef, SelectSeq(RemoteSeq, IsRemote))
    \o Map(TagRef, SelectSeq(TagSeq, HasTag))

IsTagRef(ref) == StartsWith(ref, "refs/tags")
StripTags(ref) == Replace(ref, "refs/tags/", "")

\* GitRepo.list_tags(): what the call returns.
ListTagsResult == Map(StripTags, SelectSeq(ListallReferences, IsTagRef))

\* The call changes nothing in the repository.
ListTags ==
  /\ last' = [op |-> "list_tags", outcome |-> "ok", ret |-> ListTagsResult]
  /\ UNCHANGED <<commits, refs, HEAD, index, worktree, config, remotes, disk, tags, edits,
                 frames>>

\* message or ''
MessageOrEmpty(message) == IF message = None THEN "" ELSE message

\* GitRepo.tag(tag, commitid, message): a tag object is stored and the
\* reference refs/tags/<tag> created for it, unless the commit is not found
\* or the tag exists.  The call returns the id of the tag object.
Tag(tag, commitid, message) ==
  LET author == Signature(config.name, config.email)
      target == IF commitid = NoArg THEN HeadCommit ELSE commitid
      new == Len(tags.objs) + 1
      Raise(e) == /\ last' = [op |-> "tag", outcome |-> e, ret |-> NoId]
                  /\ UNCHANGED tags
  IN /\ IF commitid = NoArg /\ HeadCommit = NoId THEN Raise("KeyError")
        ELSE IF target = ShortId THEN Raise("ValueError")
        ELSE IF ~Exists(target) THEN Raise("KeyError")
        ELSE IF HasTag(tag) THEN Raise("ValueError")
        ELSE /\ tags' = [objs |-> Append(tags.objs,
                                    [name |-> tag, target |-> target,
                                     message |-> MessageOrEmpty(message),
                                     tagger |-> author]),
                         refs |-> [tags.refs EXCEPT ![tag] = new]]
             /\ last' = [op |-> "tag", outcome |-> "ok", ret |-> new]
     /\ UNCHANGED <<commits, refs, HEAD, index, worktree, config, remotes, disk, edits,
                    frames>>

\* ------------------------------------- checkout, head_of_branch, current_branch
\* A variant that looks for a remote branch first.
LookupBranchRemoteFirst(branch_name) ==
  IF IsRemote(branch_name) THEN RemoteRef(branch_name)
  ELSE IF IsLocal(branch_name) THEN FullName(branch_name)
  ELSE None

\* lookup_branch(branch_name, GIT_BRANCH_LOCAL), then GIT_BRANCH_REMOTE when
\* there is no local branch: the name of the branch's reference, or None.
LookupBranch(branch_name) ==
  IF IsLocal(branch_name) THEN FullName(branch_name)
  ELSE IF IsRemote(branch_name) THEN RemoteRef(branch_name)
  ELSE None

\* A variant in which every reference resolves to the checked-out commit.
RefTargetOfHead(ref) == HeadCommit

\* reference.target of a branch reference lookup_branch found.
RefTarget(ref) ==
  IF StartsWith(ref, "refs/heads/") THEN refs[ref]
  ELSE remotes[Replace(ref, "refs/remotes/", "")]

\* What head_of_branch raises or returns: the commit ref.get_object() gives.
HeadOfBranchResult(branch_name) ==
  IF LookupBranch(branch_name) = None
  THEN [op |-> "head_of_branch", outcome |-> "NoSuchBranchError", ret |-> NoId,
        args |-> <<branch_name>>]
  ELSE [op |-> "head_of_branch", outcome |-> "ok",
        ret |-> RefTarget(LookupBranch(branch_name)), args |-> <<branch_name>>]

\* GitRepo.head_of_branch(branch_name): reads only.
HeadOfBranch(branch_name) ==
  /\ last' = HeadOfBranchResult(branch_name)
  /\ UNCHANGED <<commits, refs, HEAD, index, worktree, config, remotes, disk, tags, edits,
                 frames>>

\* GitRepo.current_branch: repository.head.name is the branch reference HEAD
\* names, or 'HEAD' itself when HEAD is detached.
CurrentBranch ==
  LET name == IF HEAD.sym = "" THEN "HEAD" ELSE HEAD.sym
  IN Replace(name, "refs/heads/", "")

\* repository.head = refname: HEAD names a local branch, and is detached at
\* the commit of any other reference.
SetHead(ref, target) ==
  IF StartsWith(ref, "refs/heads/") THEN [sym |-> ref, oid |-> NoId]
  ELSE [sym |-> "", oid |-> target]

\* GitRepo.checkout(branch_name): the paths in which the checked-out commit
\* and the commit to check out differ are written to the working tree and
\* the index, then HEAD is set; the library refuses when a path it has to
\* write was modified in the working tree.
Checkout(branch_name) ==
  LET ref == LookupBranch(branch_name)
      target == RefTarget(ref)
      todo == {p \in Paths : TreeOf(target)[p] # TreeOf(HeadCommit)[p]}
      conflicts == \E p \in todo :
                      worktree[p] \notin {NoFile, TreeOf(HeadCommit)[p], TreeOf(target)[p]}
      Raise(e) == /\ last' = [op |-> "checkout", outcome |-> e, ret |-> NoId,
                              args |-> <<branch_name>>]
                  /\ UNCHANGED <<HEAD, index, worktree>>
  IN /\ IF ref = None THEN Raise("NoSuchBranchError")
        ELSE IF conflicts THEN Raise("GitError")
        ELSE /\ worktree' = [p \in Paths |-> IF p \in todo
                                             THEN TreeOf(target)[p] ELSE worktree[p]]
             /\ index' = [index EXCEPT !.entries =
                            [p \in Paths |-> IF p \in todo
                                             THEN TreeOf(target)[p] ELSE @[p]]]
             /\ HEAD' = SetHead(ref, target)
             /\ last' = [op |-> "checkout", outcome |-> "ok", ret |-> NoId,
                         args |-> <<branch_name>>]
     /\ UNCHANGED <<commits, refs, config, remotes, disk, tags, edits, frames>>

\* ---------------------------------------------------------------- get_patch
\* commit.message as a string: the literal text, or the format with its
\* arguments filled in.
MessageString(m) ==
  IF m.a1 = NoId /\ m.a2 = "" THEN m.fmt
  ELSE "Merge " \o ToString(m.a1) \o " into " \o m.a2

\* The position of the first c in s from position i on, 0 when there is none.
RECURSIVE Find(_, _, _)
Find(s, c, i) ==
  IF i > Len(s) THEN 0
  ELSE IF SubSeq(s, i, i) = c THEN i
  ELSE Find(s, c, i + 1)

\* subject, message = commit.message.split('\n', 1) when there is a newline;
\* the whole message is the subject otherwise.
SplitMessage(message) ==
  LET n == Find(message, "\n", 1)
  IN IF n # 0
     THEN [subject |-> SubSeq(message, 1, n - 1),
           msg |-> SubSeq(message, n + 1, Len(message))]
     ELSE [subject |-> message, msg |-> ""]

\* A variant that numbers the subject of a single patch too.
NumberedSubjectAlways(cnt, n, subject) ==
  "[PATCH " \o ToString(cnt + 1) \o "/" \o ToString(n) \o "] " \o subject

\* '[PATCH %s/%s] %s' % (cnt + 1, len(commit_ids), subject) when more than
\* one commit id was given.
NumberedSubject(cnt, n, subject) ==
  IF n > 1
  THEN "[PATCH " \o ToString(cnt + 1) \o "/" \o ToString(n) \o "] " \o subject
  ELSE subject

\* The block of one commit: the values the template is filled with (the date
\* is left out).  diff.patch exists on a Diff object only.
PatchBlock(commitid, cnt, n) ==
  [commit |-> commitid,
   author_name |-> commits[commitid].author.name,
   author_email |-> commits[commitid].author.email,
   subject |-> NumberedSubject(cnt, n,
                 SplitMessage(MessageString(commits[commitid].message)).subject),
   msg |-> SplitMessage(MessageString(commits[commitid].message)).msg,
   patch |-> DiffResult(commitid, NoArg).ret.deltas]

\* The loop over commit_ids from position cnt + 1 on, patch being the text
\* so far (the sequence of its blocks): revparse_single raises KeyError for
\* an id that names nothing, and reading diff.patch raises AttributeError
\* when diff returned the string ''.
RECURSIVE PatchFrom(_, _, _)
PatchFrom(commit_ids, cnt, patch) ==
  IF cnt >= Len(commit_ids) THEN Returned(patch)
  ELSE LET commitid == commit_ids[cnt + 1]
       IN IF ~Exists(commitid) THEN [outcome |-> "KeyError", ret |-> <<>>]
          ELSE IF ~DiffResult(commitid, NoArg).ret.isDiff
          THEN [outcome |-> "AttributeError", ret |-> <<>>]
          ELSE PatchFrom(commit_ids, cnt + 1,
                         Append(patch, PatchBlock(commitid, cnt, Len(commit_ids))))

\* The commit_ids argument: one id, or a list of ids.
SingleId(c) == [isList |-> FALSE, id |-> c, list |-> <<>>]
IdList(cs) == [isList |-> TRUE, id |-> NoArg, list |-> cs]

\* if not isinstance(commit_ids, list): commit_ids = [commit_ids]
NormalizeIds(commit_ids) ==
  IF commit_ids.isList THEN commit_ids.list ELSE <<commit_ids.id>>

\* GitRepo.get_patch(commit_ids): what the call returns or raises.
GetPatchResult(commit_ids) == PatchFrom(NormalizeIds(commit_ids), 0, <<>>)

GetPatch(commit_ids) ==
  /\ last' = [op |-> "get_patch", outcome |-> GetPatchResult(commit_ids).outcome,
              ret |-> GetPatchResult(commit_ids).ret, args |-> <<commit_ids>>]
  /\ UNCHANGED <<commits, refs, HEAD, index, worktree, config, remotes, disk, tags, edits,
                 frames>>

\* --------------------------------------------------------------- clone_repo
\* A variant that takes only a plain file for something that exists.
PathIsFile(path) == disk.fs[path] = "file"

\* os.path.exists(path): a file, an empty directory, a directory with
\* entries or a repository is there.
PathExists(path) == disk.fs[path] # "absent"

\* GitRepo.clone_repo(url, dest_path, bare): raises when something is at
\* dest_path; otherwise the library is called, which raises GitError for a
\* url that names no repository and leaves nothing behind, and makes a
\* repository (bare or with a working tree) at dest_path for one that does;
\* the GitRepo opened at dest_path is returned.
CloneRepo(url, dest_path, bare) ==
  /\ IF PathExists(dest_path)
     THEN /\ last' = [op |-> "clone_repo", outcome |-> "OSError", ret |-> NoId,
                      args |-> <<url, dest_path, bare>>]
          /\ UNCHANGED disk
     ELSE IF url # "gitroot/test_repo.git"
     THEN /\ last' = [op |-> "clone_repo", outcome |-> "GitError", ret |-> NoId,
                      args |-> <<url, dest_path, bare>>]
          /\ disk' = [disk EXCEPT !.clones = @ + 1]
     ELSE /\ last' = [op |-> "clone_repo", outcome |-> "ok",
                      ret |-> [path |-> dest_path], args |-> <<url, dest_path, bare>>]
          /\ disk' = [disk EXCEPT !.fs[dest_path] = IF bare THEN "bare" ELSE "repo",
                                   !.clones = @ + 1]
  /\ UNCHANGED <<commits, refs, HEAD, index, worktree, config, remotes, tags, edits,
                 frames>>

\* ------------------------------------------- files_changed, files_untracked
\* A variant of the library that knows no ignore rules.
WorkdirStatusNoIgnore(p) ==
  IF index.entries[p] # NoFile
  THEN IF worktree[p] = NoFile THEN {"WT_DELETED"}
       ELSE IF worktree[p] # index.entries[p] THEN {"WT_MODIFIED"} ELSE {}
  ELSE IF worktree[p] = NoFile THEN {} ELSE {"WT_NEW"}

\* The working-tree flags repository.status() gives a path: a staged path is
\* deleted or modified in the working tree, or neither; a path that is not
\* staged and is in the working tree is new, or ignored when an ignore rule
\* matches it.
WorkdirStatus(p) ==
  IF index.entries[p] # NoFile
  THEN IF worktree[p] = NoFile THEN {"WT_DELETED"}
       ELSE IF worktree[p] # index.entries[p] THEN {"WT_MODIFIED"} ELSE {}
  ELSE IF worktree[p] = NoFile THEN {}
       ELSE IF p \in disk.ignored THEN {"IGNORED"} ELSE {"WT_NEW"}

\* repository.status()[p]: the flags of the staged content against the
\* commit HEAD resolves to, and the working-tree flags.
Status(p) ==
  LET head == TreeOf(HeadCommit)[p]
      staged == IF index.entries[p] = head THEN {}
                ELSE IF head = NoFile THEN {"INDEX_NEW"}
                ELSE IF index.entries[p] = NoFile THEN {"INDEX_DELETED"}
                ELSE {"INDEX_MODIFIED"}
  IN staged \cup WorkdirStatus(p)

\* GitRepo.files_changed: the paths flagged WT_MODIFIED or WT_DELETED.
FilesChangedResult ==
  SelectSeq(PathSeq, LAMBDA p : Status(p) \cap {"WT_MODIFIED", "WT_DELETED"} # {})

\* GitRepo.files_untracked: the paths flagged WT_NEW.
FilesUntrackedResult == SelectSeq(PathSeq, LAMBDA p : "WT_NEW" \in Status(p))

\* ------------------------------------------------------------------ Init
\* A GitRepo is opened on an existing repository.
Opened(cs, master, feature, staged, files) ==
  /\ commits = cs
  /\ refs = [r \in RefNames |-> IF r = FullName("master") THEN master
                               ELSE IF r = FullName("feature") THEN feature
                               ELSE NoId]
  /\ remotes = [r \in RemoteNames |-> IF r = "origin/master" THEN 1 ELSE NoId]
  /\ tags = NoTags
  /\ HEAD = [sym |-> FullName("master"), oid |-> NoId]
  /\ index = [entries |-> staged, conflicts |-> {}]
  /\ worktree = files
  /\ config = [name |-> "foo", email |-> "foo@bar.com"]
  /\ edits = 0
  /\ call = NoCall
  /\ frames = [k \in Callers |-> Idle]
  /\ last = [op |-> "open", outcome |-> "ok", ret |-> NoId]
  /\ disk = TestDisk

Tree(a, b) == [p \in Paths |-> IF p = "a" THEN a ELSE b]
RootTree == Tree(BaseText, BaseText)

Alice == Signature("Alice Author", "alice@authors.tld")
Cecil == Signature("Cecil Committer", "cecil@committers.tld")
Foo == Signature("foo", "foo@bar.com")

\* The commit setup_git_repo makes (tests/__init__.py).
RootCommit(tree) ==
  NewCommit(Alice, Cecil, Text("Add basic file required"), tree, <<>>)
\* A commit as add_commits makes them (tests/__init__.py).
Child(tree, parents) ==
  NewCommit(Alice, Alice, Text("Add commit"), tree, parents)

\* What the feature branch did to the root tree in a repository whose two
\* branches have diverged: changed b only, or changed a in one of its regions.
TheirTrees == {Tree(<<1, 1>>, <<2, 1>>), Tree(<<3, 1>>, <<1, 1>>),
               Tree(<<1, 2>>, <<1, 1>>)}
OurTree == Tree(<<2, 1>>, <<1, 1>>)

\* A repository with diverged branches: feature (commit 2) and master
\* (commit 3, checked out, index and working tree clean) each advanced from
\* the root commit.
InitDiverged ==
  \E theirs \in TheirTrees :
     Opened(<<RootCommit(RootTree), Child(theirs, <<1>>), Child(OurTree, <<1>>)>>,
            3, 2, OurTree, OurTree)

Init == InitDiverged

\* Repositories for diff: a root commit, a child of it, a root commit of an
\* unrelated history and a merge of the two histories; trees in which a path
\* may be missing; a working tree that differs from the index.
DiffTexts == {NoFile, <<1, 1>>, <<2, 1>>}
DiffTrees == {Tree(a, b) : a \in DiffTexts, b \in DiffTexts}
UnrelatedTrees == {Tree(NoFile, <<2, 1>>), Tree(<<1, 1>>, <<1, 1>>)}

InitDiff ==
  \E t1 \in DiffTrees, t2 \in DiffTrees, t3 \in UnrelatedTrees :
     Opened(<<RootCommit(t1), Child(t2, <<1>>), RootCommit(t3), Child(t2, <<2, 3>>)>>,
            4, 3, t2, t1)

\* ------------------------------------------------- calls and their inputs
FileLists == {<<f>> : f \in Paths \cup {MissingFile}}
               \cup {<<"a", "b">>, <<"a", MissingFile>>}
FilesArgs == {NameList(fs) : fs \in FileLists} \cup {OneName(f) : f \in Paths}

\* Commit ids given to merge: every stored commit and one id of no object.
CommitArgs == 0..Len(commits)
\* Branch names given to merge: short names, a full reference name and a
\* name no reference has.
BranchArgs == Branches \cup {FullName("feature"), "nosuch"}
MessageArgs == {None, "test merge"}
NameArgs == {None, "bar"}
EmailArgs == {None, "bar@foo.com"}

\* Commit ids given to diff: the stored commits, an id of no object, a
\* string too short to be an id, and None.
DiffArgs == (0..Len(commits)) \cup {NoArg, ShortId}

DoWriteFile == \E p \in Paths : \E text \in Edits(p) : WriteFile(p, text)

\* A caller calls commit; the commit store has room for the new commit.
CallCommit(names, emails) ==
  /\ call.op = "none"
  /\ Len(commits) < MaxCommits
  /\ \E files \in FilesArgs, branch \in Branches,
        username \in names, useremail \in emails :
        call' = [op |-> "commit", message |-> "Commit from the tests",
                 files |-> files, branch |-> branch,
                 username |-> username, useremail |-> useremail]
  /\ UNCHANGED <<commits, refs, HEAD, index, worktree, config, remotes, disk, tags, edits, frames, last>>

RunCommit ==
  /\ call.op = "commit"
  /\ Commit(Text(call.message), call.files, call.branch,
            call.username, call.useremail)
  /\ call' = NoCall

\* The call would store a merge commit.
MergeCommits(commitid, branch_name) ==
  /\ LibMerge(commitid).status = "merged"
  /\ LibMerge(commitid).index.conflicts = {}
  /\ BranchRef(branch_name) # "KeyError"

\* A caller calls merge; the commit store has room for the merge commit, if
\* the call makes one.
CallMerge ==
  /\ call.op = "none"
  /\ \E commitid \in CommitArgs, branch_name \in BranchArgs,
        message \in MessageArgs :
        /\ Len(commits) < MaxCommits \/ ~MergeCommits(commitid, branch_name)
        /\ call' = [op |-> "merge", commitid |-> commitid,
                 branch_name |-> branch_name, message |-> message,
                 username |-> None, useremail |-> None]
  /\ UNCHANGED <<commits, refs, HEAD, index, worktree, config, remotes, disk, tags, edits, frames, last>>

RunMerge ==
  /\ call.op = "merge"
  /\ Merge(call.commitid, call.branch_name, call.message,
           call.username, call.useremail)
  /\ call' = NoCall

CallDiff ==
  /\ call.op = "none"
  /\ \E commitid1 \in DiffArgs, commitid2 \in DiffArgs :
        call' = [op |-> "diff", commitid1 |-> commitid1, commitid2 |-> commitid2]
  /\ UNCHANGED <<commits, refs, HEAD, index, worktree, config, remotes, disk, tags, edits, frames, last>>

RunDiff ==
  /\ call.op = "diff"
  /\ Diff(call.commitid1, call.commitid2)
  /\ call' = NoCall

\* Commit ids given to get_patch: the stored commits, an id of no object and
\* a string that names nothing (like 'foo'); one of them alone, or a list of
\* at most MaxIds of them.
PatchIdArgs ==
  LET ids == (0..Len(commits)) \cup {ShortId}
  IN {SingleId(c) : c \in ids}
     \cup {IdList(cs) : cs \in UNION {[1..k -> ids] : k \in 0..MaxIds}}

CallGetPatch ==
  /\ call.op = "none"
  /\ \E commit_ids \in PatchIdArgs : call' = [op |-> "get_patch", commit_ids |-> commit_ids]
  /\ UNCHANGED <<commits, refs, HEAD, index, worktree, config, remotes, disk, tags, edits,
                 frames, last>>

RunGetPatch ==
  /\ call.op = "get_patch"
  /\ GetPatch(call.commit_ids)
  /\ call' = NoCall

\* Urls given to clone_repo: the bare repository of the tests, and a string
\* that names no repository.
UrlArgs == {"gitroot/test_repo.git", "foo"}

CallCloneRepo ==
  /\ call.op = "none"
  /\ disk.clones < MaxClones
  /\ \E url \in UrlArgs, dest_path \in DestPaths, bare \in BOOLEAN :
        call' = [op |-> "clone_repo", url |-> url, dest_path |-> dest_path,
                 bare |-> bare]
  /\ UNCHANGED <<commits, refs, HEAD, index, worktree, config, remotes, disk, tags,
                 edits, frames, last>>

RunCloneRepo ==
  /\ call.op = "clone_repo"
  /\ CloneRepo(call.url, call.dest_path, call.bare)
  /\ call' = NoCall

\* The user writes an ignore rule that matches a path.
DoIgnore ==
  /\ call.op = "none"
  /\ \E p \in Paths \ disk.ignored : disk' = [disk EXCEPT !.ignored = @ \cup {p}]
  /\ UNCHANGED <<commits, refs, HEAD, index, worktree, config, remotes, tags, edits,
                 call, frames, last>>

CallFilesChanged ==
  /\ call.op = "none"
  /\ call' = [op |-> "files_changed"]
  /\ UNCHANGED <<commits, refs, HEAD, index, worktree, config, remotes, disk, tags,
                 edits, frames, last>>

RunFilesChanged ==
  /\ call.op = "files_changed"
  /\ last' = [op |-> "files_changed", outcome |-> "ok", ret |-> FilesChangedResult]
  /\ call' = NoCall
  /\ UNCHANGED <<commits, refs, HEAD, index, worktree, config, remotes, disk, tags,
                 edits, frames>>

CallFilesUntracked ==
  /\ call.op = "none"
  /\ call' = [op |-> "files_untracked"]
  /\ UNCHANGED <<commits, refs, HEAD, index, worktree, config, remotes, disk, tags,
                 edits, frames, last>>

RunFilesUntracked ==
  /\ call.op = "files_untracked"
  /\ last' = [op |-> "files_untracked", outcome |-> "ok", ret |-> FilesUntrackedResult]
  /\ call' = NoCall
  /\ UNCHANGED <<commits, refs, HEAD, index, worktree, config, remotes, disk, tags,
                 edits, frames>>

\* ------------------------------------------------------- specifications
\* One caller: edits, commits and merges, each call run to its end.
CallCommitDefault == CallCommit({None}, {None})

Next == DoWriteFile \/ CallCommitDefault \/ RunCommit \/ CallMerge \/ RunMerge

Spec == Init /\ [][Next]_vars

\* Commits with every combination of given and defaulted author.
CallCommitAs == CallCommit(NameArgs, EmailArgs)

NextCommit == DoWriteFile \/ CallCommitAs \/ RunCommit

SpecCommit == Init /\ [][NextCommit]_vars

\* Diffs over a repository that does not change.
NextDiff == CallDiff \/ RunDiff

SpecDiff == InitDiff /\ [][NextDiff]_vars

\* The repository setup_git_repo leaves: one root commit on master.
InitFixture == Opened(<<RootCommit(RootTree)>>, 1, NoId, RootTree, RootTree)

\* How many callers are in a call.
Active == Cardinality({k \in Callers : frames[k].pc # "idle"})

\* Caller k calls commit or merge on master; the commit store has room for
\* a commit of every call being made.
Begin(k) ==
  /\ frames[k].pc = "idle"
  /\ Len(commits) + Active < MaxCommits
  /\ \/ \E f \in Paths :
          SetFrame(k, [Idle EXCEPT !.pc = "called", !.op = "commit",
                                   !.files = OneName(f), !.branch = "master"])
     \/ \E commitid \in 1..Len(commits) :
          SetFrame(k, [Idle EXCEPT !.pc = "called", !.op = "merge",
                                   !.commitid = commitid, !.branch = "master"])
  /\ UNCHANGED <<commits, refs, HEAD, index, worktree, config, remotes, disk, tags, edits, call, last>>

NextConc ==
  \/ DoWriteFile
  \/ \E k \in Callers :
        \/ Begin(k)
        \/ CommitStage(k) \/ CommitReadHead(k) \/ CommitCreate(k)
        \/ MergeAnalyse(k) \/ MergeReadHead(k) \/ MergeFinish(k)

SpecConc == InitFixture /\ [][NextConc]_vars

\* Status arguments given to list_branches: the three allowed, one that is
\* not, and none.
StatusArgs == {"all", "local", "remote", "foo", None}

CallListBranches ==
  /\ call.op = "none"
  /\ \E status \in StatusArgs : call' = [op |-> "list_branches", status |-> status]
  /\ UNCHANGED <<commits, refs, HEAD, index, worktree, config, remotes, disk, tags, edits,
                 frames, last>>

RunListBranches ==
  /\ call.op = "list_branches"
  /\ ListBranches(call.status)
  /\ call' = NoCall

\* A caller calls commit on any local branch name, with one file.
CallCommitOn ==
  /\ call.op = "none"
  /\ Len(commits) < MaxCommits
  /\ \E f \in Paths, branch \in LocalNames :
        call' = [op |-> "commit", message |-> "Commit from the tests",
                 files |-> OneName(f), branch |-> branch,
                 username |-> None, useremail |-> None]
  /\ UNCHANGED <<commits, refs, HEAD, index, worktree, config, remotes, disk, tags, edits,
                 frames, last>>

\* Commit ids given to tag: the stored commits, an id of no object, and None.
TagCommitArgs == (0..Len(commits)) \cup {NoArg}
TagMessageArgs == {None, "test commit"}

CallTag ==
  /\ call.op = "none"
  /\ \E tag \in TagNames, commitid \in TagCommitArgs, message \in TagMessageArgs :
        call' = [op |-> "tag", tag |-> tag, commitid |-> commitid,
                 message |-> message]
  /\ UNCHANGED <<commits, refs, HEAD, index, worktree, config, remotes, disk, tags, edits,
                 frames, last>>

RunTag ==
  /\ call.op = "tag"
  /\ Tag(call.tag, call.commitid, call.message)
  /\ call' = NoCall

CallListTags ==
  /\ call.op = "none"
  /\ call' = [op |-> "list_tags"]
  /\ UNCHANGED <<commits, refs, HEAD, index, worktree, config, remotes, disk, tags, edits,
                 frames, last>>

RunListTags ==
  /\ call.op = "list_tags"
  /\ ListTags
  /\ call' = NoCall

\* Branch names given to checkout and head_of_branch: local ones, remote
\* ones, and a name no branch has.
BranchNameArgs == LocalNames \cup RemoteNames \cup {"nosuch"}

CallCheckout ==
  /\ call.op = "none"
  /\ \E branch_name \in BranchNameArgs :
        call' = [op |-> "checkout", branch_name |-> branch_name]
  /\ UNCHANGED <<commits, refs, HEAD, index, worktree, config, remotes, disk, tags, edits,
                 frames, last>>

RunCheckout ==
  /\ call.op = "checkout"
  /\ Checkout(call.branch_name)
  /\ call' = NoCall

CallHeadOfBranch ==
  /\ call.op = "none"
  /\ \E branch_name \in BranchNameArgs :
        call' = [op |-> "head_of_branch", branch_name |-> branch_name]
  /\ UNCHANGED <<commits, refs, HEAD, index, worktree, config, remotes, disk, tags, edits,
                 frames, last>>

RunHeadOfBranch ==
  /\ call.op = "head_of_branch"
  /\ HeadOfBranch(call.branch_name)
  /\ call' = NoCall

\* References: branches made by commits, and listed.
NextRefs ==
  \/ DoWriteFile
  \/ CallCommitOn \/ RunCommit
  \/ CallListBranches \/ RunListBranches

SpecRefs == InitFixture /\ [][NextRefs]_vars

\* Tags made and listed in a repository whose branches have diverged.
NextTags == CallTag \/ RunTag \/ CallListTags \/ RunListTags

SpecTags == Init /\ [][NextTags]_vars

\* A repository with diverged branches whose clone of origin is behind, and
\* in which a local branch named origin/master was or was not made (by a
\* commit on that name) at the commit of feature.
InitBranched ==
  \E theirs \in TheirTrees, slash \in {NoId, 2} :
     /\ commits = <<RootCommit(RootTree), Child(theirs, <<1>>), Child(OurTree, <<1>>)>>
     /\ refs = [r \in RefNames |-> IF r = FullName("master") THEN 3
                                  ELSE IF r = FullName("feature") THEN 2
                                  ELSE slash]
     /\ remotes = [r \in RemoteNames |-> IF r = "origin/master" THEN 1 ELSE NoId]
     /\ tags = NoTags
     /\ HEAD = [sym |-> FullName("master"), oid |-> NoId]
     /\ index = [entries |-> OurTree, conflicts |-> {}]
     /\ worktree = OurTree
     /\ config = [name |-> "foo", email |-> "foo@bar.com"]
     /\ edits = 0
     /\ call = NoCall
     /\ frames = [k \in Callers |-> Idle]
     /\ last = [op |-> "open", outcome |-> "ok", ret |-> NoId]
     /\ disk = TestDisk

\* HEAD moved between branches, and branches looked up, with edits in the
\* working tree.
NextHead ==
  \/ DoWriteFile
  \/ CallCheckout \/ RunCheckout
  \/ CallHeadOfBranch \/ RunHeadOfBranch

SpecHead == InitBranched /\ [][NextHead]_vars

\* Messages of the commit a patch is made of: one line, one line ended by a
\* newline, a subject with a body, and a message that begins with a newline.
PatchMessages == {"Add commit", "Add commit\n",
                  "Add commit\n\nwith a body\nof two lines", "\nno subject"}

\* Repositories for get_patch: a root commit, a child of it with one of the
\* messages, a root commit of an unrelated history, and the merge of the two
\* histories as merge commits it.
InitPatch ==
  \E t2 \in TheirTrees, m \in PatchMessages :
     Opened(<<RootCommit(RootTree),
              NewCommit(Alice, Alice, Text(m), t2, <<1>>),
              RootCommit(Tree(NoFile, <<2, 1>>)),
              NewCommit(Foo, Foo, DefaultMergeMessage(3, "master"), t2, <<2, 3>>)>>,
            4, 3, t2, t2)

\* Patches made of a repository that does not change.
NextPatch == CallGetPatch \/ RunGetPatch

SpecPatch == InitPatch /\ [][NextPatch]_vars

\* The repository of the tests, on a disk where each destination path is
\* missing, a file, an empty directory or a directory with entries.
InitClone ==
  /\ commits = <<RootCommit(RootTree)>>
  /\ refs = [r \in RefNames |-> IF r = FullName("master") THEN 1 ELSE NoId]
  /\ remotes = [r \in RemoteNames |-> IF r = "origin/master" THEN 1 ELSE NoId]
  /\ tags = NoTags
  /\ HEAD = [sym |-> FullName("master"), oid |-> NoId]
  /\ index = [entries |-> RootTree, conflicts |-> {}]
  /\ worktree = RootTree
  /\ config = [name |-> "foo", email |-> "foo@bar.com"]
  /\ edits = 0
  /\ call = NoCall
  /\ frames = [k \in Callers |-> Idle]
  /\ last = [op |-> "open", outcome |-> "ok", ret |-> NoId]
  /\ \E fs \in [DestPaths -> {"absent", "file", "emptydir", "dir"}] :
        disk = [TestDisk EXCEPT !.fs = fs]

\* Clones into the destination paths.
NextClone == CallCloneRepo \/ RunCloneRepo

SpecClone == InitClone /\ [][NextClone]_vars

\* A repository without commits: HEAD names master, which does not exist
\* yet; the files are in the working tree and nothing is staged.
InitEmpty == Opened(<<>>, NoId, NoId, EmptyTree, RootTree)

\* The first commits of a repository, with edits in between.
NextFirst == DoWriteFile \/ CallCommitDefault \/ RunCommit

SpecFirst == InitEmpty /\ [][NextFirst]_vars

\* Commits and merges without edits in between, in the repository with
\* diverged branches and in the repository with the one commit of the tests,
\* where every branch made starts at the checked-out commit.
InitMerge == Init \/ InitFixture

NextMerge == CallCommitDefault \/ RunCommit \/ CallMerge \/ RunMerge

SpecMerge == InitMerge /\ [][NextMerge]_vars

\* Repositories for the status of files: each path is staged or not, and in
\* the working tree with the staged content, with another content, or not
\* at all.
InitStatus ==
  \E staged \in DiffTrees, files \in DiffTrees :
     Opened(<<RootCommit(RootTree)>>, 1, NoId, staged, files)

\* Ignore rules written and the two lists read.
NextStatus ==
  \/ DoIgnore
  \/ CallFilesChanged \/ RunFilesChanged
  \/ CallFilesUntracked \/ RunFilesUntracked

SpecStatus == InitStatus /\ [][NextStatus]_vars

\* ------------------------------------------------------------ properties
\* The step on which the pending call to op runs to its end.  Its arguments
\* are the fields of call, the repository before it the unprimed variables.
Ran(op) == call.op = op /\ call'.op = "none"

\* The branch the merge call names exists.
BranchKnown == BranchRef(call.branch_name) # "KeyError"

\* The commit to merge is the commit HEAD resolves to or an ancestor of it.
AlreadyMerged ==
  /\ Exists(call.commitid)
  /\ HeadCommit # NoId
  /\ IsAncestor(call.commitid, HeadCommit)

\* C1: merging a commit that the current branch already contains (the tip
\* itself or an ancestor of it) into an existing branch raises
\* NothingToMergeError, stores no commit and leaves every reference and HEAD
\* as they were.
C1_UpToDateMerge ==
  [][(Ran("merge") /\ AlreadyMerged /\ BranchKnown)
       => /\ last'.outcome = "NothingToMergeError"
          /\ commits' = commits
          /\ refs' = refs
          /\ HEAD' = HEAD]_vars

\* A merge of a strict ancestor of the tip was refused as nothing to merge.
C1_Witness ==
  /\ last.op = "merge"
  /\ last.outcome = "NothingToMergeError"
  /\ Len(commits) > 3

\* The tip of the branch the merge call names is a strict ancestor of the
\* commit to merge.
TargetBehind ==
  /\ Exists(call.commitid)
  /\ BranchKnown
  /\ refs[BranchRef(call.branch_name)] # call.commitid
  /\ IsAncestor(refs[BranchRef(call.branch_name)], call.commitid)

\* C2: when the tip of the target branch is a strict ancestor of commitid,
\* merge stores no commit, moves the target branch reference to commitid and
\* returns commitid.
C2_FastForward ==
  [][(Ran("merge") /\ TargetBehind)
       => /\ commits' = commits
          /\ last'.outcome = "fastforward"
          /\ last'.ret = call.commitid
          /\ refs'[BranchRef(call.branch_name)] = call.commitid]_vars

\* The trees of a three-way merge of the commit to merge into the current
\* branch.
BaseTree == TreeOf(MergeBase(HeadCommit, call.commitid))
OursTree == TreeOf(HeadCommit)
TheirsTree == TreeOf(call.commitid)

\* The commit to merge and the current branch have a common ancestor which
\* is neither of them.
ThreeWay ==
  /\ Exists(call.commitid)
  /\ HeadCommit # NoId
  /\ MergeBase(HeadCommit, call.commitid) \notin {NoId, HeadCommit, call.commitid}

\* The merge is not refused for uncommitted changes.
NotRefused ==
  ~MergeRefused(OursTree, MergeTrees(BaseTree, OursTree, TheirsTree))

\* Both sides changed path p since the common ancestor, to different content.
BothChanged(p) ==
  /\ OursTree[p] # BaseTree[p]
  /\ TheirsTree[p] # BaseTree[p]
  /\ OursTree[p] # TheirsTree[p]

\* Both sides changed the same region of path p, to different content, or
\* one side deleted p and the other changed it.
BothChangedSameRegion(p) ==
  /\ BothChanged(p)
  /\ \/ NoFile \in {BaseTree[p], OursTree[p], TheirsTree[p]}
     \/ \E i \in 1..2 : /\ OursTree[p][i] # BaseTree[p][i]
                        /\ TheirsTree[p][i] # BaseTree[p][i]
                        /\ OursTree[p][i] # TheirsTree[p][i]

\* The failure of a merge: the error, no commit stored, references and HEAD
\* as before.
MergeFailsWith(e) ==
  /\ last'.outcome = e
  /\ commits' = commits
  /\ refs' = refs
  /\ HEAD' = HEAD

NoConflict ==
  /\ MergeTrees(BaseTree, OursTree, TheirsTree).conflicts = {}
  /\ index.conflicts = {}

\* The one commit the step stored.
Stored == commits'[Len(commits')]

\* The step stored exactly one commit and changed none of the others.
StoredOne ==
  /\ Len(commits') = Len(commits) + 1
  /\ \A c \in 1..Len(commits) : commits'[c] = commits[c]

C5_OnlyTargetBranchMoves ==
  [][(Ran("merge") /\ last'.outcome \in {"fastforward", "merged"})
       => /\ refs'[BranchRef(call.branch_name)] = last'.ret
          /\ \A r \in RefNames \ {BranchRef(call.branch_name)} :
                refs'[r] = refs[r]]_vars

\* C6: the tree of a successful three-way merge commit has, for every path
\* changed by one side only since the merge base, that side's version, and
\* the merge base's version of every path neither side changed.
C6_MergedTree ==
  [][(Ran("merge") /\ last'.outcome = "merged")
       => \A p \in Paths :
             /\ OursTree[p] = BaseTree[p] => Stored.tree[p] = TheirsTree[p]
             /\ TheirsTree[p] = BaseTree[p] => Stored.tree[p] = OursTree[p]]_vars

\* The author a commit call asks for: each of name and e-mail as given, or
\* as configured in user.name / user.email when None is given.
AskedAuthor ==
  [name |-> IF call.username = None THEN config.name ELSE call.username,
   email |-> IF call.useremail = None THEN config.email ELSE call.useremail]

\* C8: a successful commit on the checked-out branch leaves HEAD at the
\* returned id; the commit has the message argument as its message and, as
\* author and as committer, the given name and e-mail, each replaced by the
\* configured user.name / user.email when None; a single file name does
\* what the one-element list of that name does.
C8_Commit ==
  [][Ran("commit")
       => /\ (last'.outcome = "ok" /\ FullName(call.branch) = HEAD.sym)
               => /\ StoredOne
                  /\ last'.ret = Len(commits')
                  /\ HEAD' = HEAD
                  /\ refs'[HEAD'.sym] = last'.ret
                  /\ Stored.message = Text(call.message)
                  /\ Stored.author = AskedAuthor
                  /\ Stored.committer = AskedAuthor
          /\ ~call.files.isList
               => Commit(Text(call.message), NameList(<<call.files.name>>),
                         call.branch, call.username, call.useremail)]_vars

\* A commit with a given name and the configured e-mail is the tip of the
\* checked-out branch.
C8_Witness ==
  /\ last.op = "commit"
  /\ last.outcome = "ok"
  /\ HeadCommit = last.ret
  /\ commits[last.ret].author = Signature("bar", "foo@bar.com")
  /\ commits[last.ret].committer = Signature("bar", "foo@bar.com")

\* The one commit id of a diff call given exactly one.
OneId == IF call.commitid1 # NoArg THEN call.commitid1 ELSE call.commitid2

\* The deltas apply to the tree: each finds the content it replaces.
Applies(tree, d) == \A i \in 1..Len(d) : tree[d[i].path] = d[i].old

\* The tree after the deltas are applied to it.
ApplyDiff(tree, d) ==
  [p \in Paths |->
     IF \E i \in 1..Len(d) : d[i].path = p
     THEN d[CHOOSE i \in 1..Len(d) : d[i].path = p].new
     ELSE tree[p]]

\* Every delta adds a path, and the deltas are the paths of the tree, each
\* once, with the content the tree gives them.
AllAdditions(d, tree) ==
  /\ \A i \in 1..Len(d) :
        d[i].kind = "added" /\ d[i].old = NoFile /\ d[i].new = tree[d[i].path]
  /\ {d[i].path : i \in 1..Len(d)} = {p \in Paths : tree[p] # NoFile}
  /\ Len(d) = Cardinality({p \in Paths : tree[p] # NoFile})

\* C9: diff with exactly one commit id, in either position, of an existing
\* commit returns by the number of its parents: none, the diff from the
\* empty tree to its tree, every path of the tree an addition; one, the diff
\* from that parent to the commit; two or more, an empty result.
C9_DiffOneCommit ==
  [][(Ran("diff") /\ (call.commitid1 = NoArg) # (call.commitid2 = NoArg)
        /\ Exists(OneId))
       => /\ last'.outcome = "ok"
          /\ Len(commits[OneId].parents) = 0
               => /\ last'.ret.isDiff
                  /\ AllAdditions(last'.ret.deltas, TreeOf(OneId))
                  /\ ApplyDiff(EmptyTree, last'.ret.deltas) = TreeOf(OneId)
          /\ Len(commits[OneId].parents) = 1
               => /\ last'.ret.isDiff
                  /\ last'.ret.deltas =
                       TreeDiff(TreeOf(commits[OneId].parents[1]), TreeOf(OneId))
                  /\ Applies(TreeOf(commits[OneId].parents[1]), last'.ret.deltas)
                  /\ ApplyDiff(TreeOf(commits[OneId].parents[1]),
                               last'.ret.deltas) = TreeOf(OneId)
          /\ Len(commits[OneId].parents) >= 2
               => last'.ret.deltas = <<>>]_vars

\* The diff of the root commit, given as second argument, added two paths.
C9_Witness ==
  /\ last.op = "diff"
  /\ last.outcome = "ok"
  /\ last.args = <<NoArg, 1>>
  /\ Len(last.ret.deltas) = 2
  /\ \A i \in 1..2 : last.ret.deltas[i].kind = "added"

\* The deltas read backwards: additions and deletions change places, and so
\* do old and new content.
Reversed(d) ==
  [i \in 1..Len(d) |->
     [path |-> d[i].path,
      kind |-> IF d[i].kind = "added" THEN "deleted"
               ELSE IF d[i].kind = "deleted" THEN "added" ELSE "modified",
      old |-> d[i].new, new |-> d[i].old]]

\* C10: diff of two existing commits, related or not, does not fail and
\* returns the changes from the first tree to the second: applied to the
\* first tree they give the second, the diff of a commit with itself is
\* empty, and the diff of (a, b) is the diff of (b, a) reversed.
C10_DiffTwoCommits ==
  [][(Ran("diff") /\ Exists(call.commitid1) /\ Exists(call.commitid2))
       => /\ last'.outcome = "ok"
          /\ last'.ret.isDiff
          /\ Applies(TreeOf(call.commitid1), last'.ret.deltas)
          /\ ApplyDiff(TreeOf(call.commitid1), last'.ret.deltas)
               = TreeOf(call.commitid2)
          /\ call.commitid1 = call.commitid2 => last'.ret.deltas = <<>>
          /\ last'.ret.deltas
               = Reversed(DiffResult(call.commitid2, call.commitid1).ret.deltas)]_vars

\* The diff of two root commits of unrelated histories deleted one path and
\* changed or added another.
C10_Witness ==
  /\ last.op = "diff"
  /\ last.outcome = "ok"
  /\ last.args = <<1, 3>>
  /\ \E i \in 1..Len(last.ret.deltas) : last.ret.deltas[i].kind = "deleted"
  /\ \E i \in 1..Len(last.ret.deltas) : last.ret.deltas[i].kind # "deleted"

\* Caller k's call ends on this step, having read HEAD earlier.
Ending(k) == frames[k].pc = "read" /\ frames'[k].pc = "idle"

\* C7: with two concurrent callers on one branch, the step that ends a call
\* changes a reference only if the branch still points at the commit the
\* caller read, and otherwise ends the call with an error that is not one
\* of the wrapper's outcomes for an uncontended call.
C7_NoLostUpdate ==
  [][\A k \in Callers :
        (Ending(k) /\ refs[FullName(frames[k].branch)] # frames[k].parent)
          => /\ refs' = refs
             /\ last'.outcome \notin {"ok", "merged", "fastforward",
                                      "MergeConflictsError"}]_vars

\* The step left the repository as it was.
RepositoryUnchanged ==
  UNCHANGED <<commits, refs, HEAD, index, worktree, config, remotes, tags>>

\* C11: diff does not return for a commit id that names nothing, and changes
\* nothing in the repository: with one id it raises ValueError for an id too
\* short to be one and NoSuchRefError for a well-formed id of no commit; with
\* two ids it raises KeyError when either of them is not found.
C11_DiffUnknownCommit ==
  [][Ran("diff")
       => /\ RepositoryUnchanged
          /\ ((call.commitid1 = NoArg) # (call.commitid2 = NoArg) /\ OneId = ShortId)
               => last'.outcome = "ValueError"
          /\ ((call.commitid1 = NoArg) # (call.commitid2 = NoArg)
                /\ OneId # ShortId /\ ~Exists(OneId))
               => last'.outcome = "NoSuchRefError"
          /\ (NoArg \notin {call.commitid1, call.commitid2}
                /\ (~Exists(call.commitid1) \/ ~Exists(call.commitid2)))
               => last'.outcome = "KeyError"]_vars

\* A diff of one well-formed id of no commit raised NoSuchRefError.
C11_Witness ==
  /\ last.op = "diff"
  /\ last.outcome = "NoSuchRefError"
  /\ last.args = <<0, NoArg>>

\* The elements of a sequence.
Range(seq) == {seq[i] : i \in 1..Len(seq)}

\* What list_branches returns in the state before the step.
Listed(status) == ListBranchesResult(status).ret

\* What C12 says of every call: ValueError, with the allowed statuses, for a
\* status that is none of them; the result of 'all' when no status is given;
\* and 'all' the names of 'local' together with those of 'remote'.
ListBranchesAsAll ==
  /\ call.status \notin {"all", "local", "remote", None}
       => last'.outcome = "ValueError" /\ Range(last'.ret) = {"all", "local", "remote"}
  /\ call.status \in {"all", "local", "remote", None} => last'.outcome = "ok"
  /\ call.status = None => last'.ret = Listed("all")
  /\ Range(Listed("all")) = Range(Listed("local")) \cup Range(Listed("remote"))

StoredTag == tags'.objs[Len(tags'.objs)]

\* A successful tag call stored one tag object with the name given, the
\* commit given or the one HEAD resolves to as target and the message given
\* or the empty string, and returned its id; no tag call moves a branch or
\* HEAD.
TagCreates ==
  /\ refs' = refs /\ remotes' = remotes /\ HEAD' = HEAD
  /\ last'.outcome = "ok"
       => /\ Len(tags'.objs) = Len(tags.objs) + 1
          /\ last'.ret = Len(tags'.objs)
          /\ tags'.refs[call.tag] = last'.ret
          /\ StoredTag.name = call.tag
          /\ StoredTag.target
               = (IF call.commitid = NoArg THEN HeadCommit ELSE call.commitid)
          /\ StoredTag.message = (IF call.message = None THEN "" ELSE call.message)

\* list_tags returns the names of the tags there are, each once.
ListTagsExact ==
  /\ Range(last'.ret) = {t \in TagNames : HasTag(t)}
  /\ Len(last'.ret) = Cardinality({t \in TagNames : HasTag(t)})

\* C13: tag stores a tag object named tag on commitid, or on the commit HEAD
\* resolves to when commitid is None, with the message or the empty string;
\* after successful tag calls with distinct names list_tags returns exactly
\* the names of the tags made; a tag call moves no branch and not HEAD.
C13_TagAndListTags ==
  [][/\ Ran("tag") => TagCreates
     /\ Ran("list_tags") => ListTagsExact]_vars

\* What list_branches returns does not change in the step.
ListBranchesUnchanged ==
  \A status \in {"all", "local", "remote"} :
     ListBranchesResult(status)' = ListBranchesResult(status)

\* C14: after checkout(branch_name) returns without error, current_branch
\* equals branch_name and list_branches returns the same branches as before
\* the call, for local branch names and for remote branches given as
\* <remote>/<branchname>.
C14_CheckoutSetsCurrentBranch ==
  [][Ran("checkout") /\ last'.outcome = "ok"
     => /\ CurrentBranch' = call.branch_name
        /\ ListBranchesUnchanged]_vars

\* The name is neither a local nor a remote branch.
NoSuchBranch(b) == ~IsLocal(b) /\ ~IsRemote(b)

\* The commit the branch of that name points at, a local branch first.
Tip(b) == IF IsLocal(b) THEN refs[FullName(b)] ELSE remotes[b]

\* C15: checkout(branch_name) and head_of_branch(branch_name) raise
\* NoSuchBranchError exactly when branch_name is neither a local branch nor a
\* remote branch; a local branch is found before a remote one of the same
\* name; when the error is raised HEAD, current_branch and every reference
\* are unchanged.
C15_NoSuchBranch ==
  [][Ran("checkout") \/ Ran("head_of_branch")
     => /\ last'.outcome = "NoSuchBranchError" <=> NoSuchBranch(call.branch_name)
        /\ last'.outcome = "NoSuchBranchError"
           => RepositoryUnchanged /\ CurrentBranch' = CurrentBranch
        /\ IsLocal(call.branch_name) /\ last'.outcome = "ok"
           => IF call.op = "checkout"
              THEN HEAD' = [sym |-> FullName(call.branch_name), oid |-> NoId]
              ELSE last'.ret = refs[FullName(call.branch_name)]]_vars

\* NoSuchBranchError was raised for a name no branch has, in a repository
\* that has a local and a remote branch of one name.
C15_Witness ==
  /\ last.op \in {"checkout", "head_of_branch"}
  /\ last.outcome = "NoSuchBranchError"
  /\ last.args = <<"nosuch">>
  /\ IsLocal(SlashBranch) /\ IsRemote(SlashBranch)
  /\ refs[FullName(SlashBranch)] # remotes[SlashBranch]

\* C16: head_of_branch for an existing local or remote branch returns the
\* commit that branch currently points at and changes nothing; two branches
\* pointing at the same commit yield the same commit.
C16_HeadOfBranch ==
  [][Ran("head_of_branch") /\ ~NoSuchBranch(call.branch_name)
     => /\ last'.outcome = "ok"
        /\ last'.ret = Tip(call.branch_name)
        /\ last'.ret \in 1..Len(commits)
        /\ RepositoryUnchanged
        /\ CurrentBranch' = CurrentBranch
        /\ \A b \in BranchNameArgs :
              ~NoSuchBranch(b) /\ Tip(b) = Tip(call.branch_name)
              => HeadOfBranchResult(b).ret = last'.ret]_vars

\* head_of_branch returned the commit of feature while another branch points
\* at the same commit and HEAD is on a third.
C16_Witness ==
  /\ last.op = "head_of_branch"
  /\ last.outcome = "ok"
  /\ last.args = <<"feature">>
  /\ last.ret = refs[FullName("feature")]
  /\ refs[FullName(SlashBranch)] = refs[FullName("feature")]
  /\ HeadCommit # last.ret

\* The commit ids of the call, as a list.
GivenIds == IF call.commit_ids.isList THEN call.commit_ids.list ELSE <<call.commit_ids.id>>

\* The subject of a block without the prefix its position i of n calls for.
Unprefixed(subject, i, n) ==
  LET prefix == "[PATCH " \o ToString(i) \o "/" \o ToString(n) \o "] "
  IN IF n > 1 /\ StartsWith(subject, prefix)
     THEN SubSeq(subject, Len(prefix) + 1, Len(subject))
     ELSE subject

\* Block i of n is the block of commit c: a subject prefixed exactly when
\* n > 1, that is the first line of the commit's message, and a body that is
\* the rest of the message.
BlockOf(block, c, i, n) ==
  LET m == MessageString(commits[c].message)
      s == Unprefixed(block.subject, i, n)
  IN /\ block.commit = c
     /\ block.author_name = commits[c].author.name
     /\ block.author_email = commits[c].author.email
     /\ n > 1 <=> StartsWith(block.subject, "[PATCH ")
     /\ n > 1 => block.subject = "[PATCH " \o ToString(i) \o "/" \o ToString(n)
                                  \o "] " \o s
     /\ Find(s, "\n", 1) = 0
     /\ \/ m = s /\ block.msg = ""
        \/ m = s \o "\n" \o block.msg

\* C17: get_patch emits one block per given commit id, in order; the Subject
\* is the first line of the commit message and the rest follows as body; the
\* subject is prefixed '[PATCH i/N]' exactly when N > 1 ids were given; one
\* id given as a string behaves as the list of that one id.
C17_PatchBlocks ==
  [][Ran("get_patch")
     => /\ last'.outcome = "ok"
           => /\ Len(last'.ret) = Len(GivenIds)
              /\ \A i \in 1..Len(GivenIds) :
                    BlockOf(last'.ret[i], GivenIds[i], i, Len(GivenIds))
        /\ ~call.commit_ids.isList
           => /\ last'.outcome = GetPatchResult(IdList(<<call.commit_ids.id>>)).outcome
              /\ last'.ret = GetPatchResult(IdList(<<call.commit_ids.id>>)).ret
        /\ RepositoryUnchanged]_vars

\* get_patch returned two blocks in the order given: the first of a commit
\* whose message has a body, the second of a commit with a one-line message.
C17_Witness ==
  /\ last.op = "get_patch"
  /\ last.outcome = "ok"
  /\ Len(last.ret) = 2
  /\ last.ret[1].commit = 2 /\ last.ret[1].msg = "\nwith a body\nof two lines"
  /\ last.ret[1].subject = "[PATCH 1/2] Add commit"
  /\ last.ret[2].commit = 1 /\ last.ret[2].msg = ""

\* C18: get_patch returns a patch text for every commit id that names a
\* commit, whatever the number of its parents, and raises KeyError only for
\* an id that resolves to nothing; it never fails on a commit that exists.
C18_PatchOfEveryCommit ==
  [][Ran("get_patch")
     => /\ (\A i \in 1..Len(GivenIds) : Exists(GivenIds[i])) => last'.outcome = "ok"
        /\ last'.outcome # "ok"
           => /\ last'.outcome = "KeyError"
              /\ \E i \in 1..Len(GivenIds) : ~Exists(GivenIds[i])]_vars

\* C19: clone_repo raises OSError when the destination directory exists and
\* is not empty, and then the library is not called to clone and nothing on
\* the filesystem is made or changed; when the destination does not exist
\* and the clone succeeds, it returns a GitRepo opened at dest_path.
C19_CloneRepo ==
  [][Ran("clone_repo")
     => /\ disk.fs[call.dest_path] = "dir"
           => /\ last'.outcome = "OSError"
              /\ disk' = disk
              /\ RepositoryUnchanged
        /\ disk.fs[call.dest_path] = "absent" /\ last'.outcome = "ok"
           => /\ last'.ret = [path |-> call.dest_path]
              /\ disk'.fs[call.dest_path] = IF call.bare THEN "bare" ELSE "repo"
              /\ \A d \in DestPaths \ {call.dest_path} : disk'.fs[d] = disk.fs[d]
              /\ disk'.clones = disk.clones + 1]_vars

\* After a clone into a path that did not exist, a clone into a directory
\* with entries raised OSError.
C19_Witness ==
  /\ last.op = "clone_repo"
  /\ last.outcome = "OSError"
  /\ last.args = <<"gitroot/test_repo.git", "gitroot", FALSE>>
  /\ disk.fs["gitroot"] = "dir"
  /\ disk.fs["gitroot/cloned_repo"] = "repo"
  /\ disk.clones = 1

\* The staged paths whose working-tree content differs from the staged one
\* or is gone.
ChangedTracked ==
  {p \in Paths : index.entries[p] # NoFile /\ worktree[p] # index.entries[p]}

\* The paths in the working tree that are not staged.
PresentUntracked == {p \in Paths : index.entries[p] = NoFile /\ worktree[p] # NoFile}

\* The two lists have no path in common, and no untracked path is in
\* files_changed.
ListsDisjoint ==
  /\ Range(FilesChangedResult) \cap Range(FilesUntrackedResult) = {}
  /\ Range(FilesChangedResult) \cap PresentUntracked = {}

C21_FailedMergeChangesNothing ==
  [][Ran("merge") /\ last'.outcome \in {"NothingToMergeError", "MergeConflictsError"}
     => /\ commits' = commits
        /\ refs' = refs
        /\ HEAD' = HEAD
        /\ index' = index
        /\ worktree' = worktree]_vars

\* The paths the commit call lists.
ListedFiles ==
  IF call.files.isList THEN Range(call.files.list) ELSE {call.files.name}

\* C22: the commit made by commit() has exactly one parent, the commit HEAD
\* resolved to before the call, or no parent when HEAD resolved to no commit;
\* it never has two or more parents; its tree is the staging index after the
\* listed files were added, paths staged before the call included.
C22_CommitParentAndTree ==
  [][Ran("commit") /\ last'.outcome = "ok"
     => /\ StoredOne
        /\ Stored.parents = IF HeadCommit = NoId THEN <<>> ELSE <<HeadCommit>>
        /\ Len(Stored.parents) <= 1
        /\ Stored.tree = [p \in Paths |-> IF p \in ListedFiles THEN worktree[p]
                                          ELSE index.entries[p]]
        /\ Stored.tree = index'.entries]_vars

\* The second commit of a repository: its parent is the first commit, which
\* has no parent, and its tree has a path that the working tree holds with
\* another content, so that was staged before and not listed.
C22_Witness ==
  /\ last.op = "commit"
  /\ last.outcome = "ok"
  /\ last.ret = 2
  /\ commits[2].parents = <<1>>
  /\ commits[1].parents = <<>>
  /\ \E p \in Paths : commits[2].tree[p] \notin {NoFile, worktree[p], commits[1].tree[p]}

\* C23: commit(message, files, branch=b) changes the target of refs/heads/b
\* only and keeps b's history: every commit reachable from b's tip before the
\* call is reachable from it after the call, also when b is not the
\* checked-out branch; no other branch and no tag moves.
C23_CommitKeepsHistory ==
  [][Ran("commit")
     => /\ \A r \in RefNames \ {FullName(call.branch)} : refs'[r] = refs[r]
        /\ remotes' = remotes
        /\ tags' = tags
        /\ HEAD' = HEAD
        /\ LET old == refs[FullName(call.branch)]
               new == refs'[FullName(call.branch)]
           IN \/ old = NoId
              \/ new = old
              \/ \E i \in 1..Len(commits'[new].parents) :
                    IsAncestor(old, commits'[new].parents[i])]_vars

\* C24: when merge fails because branch_name resolves to no reference,
\* neither as given nor as refs/heads/<branch_name>, an error is raised and
\* the repository is as before the call: no reference, no staging-index
\* entry and no working-tree file has changed.
C24_UnknownBranchChangesNothing ==
  [][Ran("merge") /\ ~BranchKnown
     => /\ last'.outcome \in {"KeyError", "GitError"}
        /\ commits' = commits
        /\ refs' = refs
        /\ HEAD' = HEAD
        /\ index' = index
        /\ worktree' = worktree]_vars

\* The checked-out commit is the commit to merge or an ancestor of it.
FastForwardable ==
  /\ Exists(call.commitid)
  /\ HeadCommit # NoId
  /\ IsAncestor(HeadCommit, call.commitid)

\* The merge call names a commit and a branch that exist, in a repository
\* with a checked-out commit, and the library does not refuse it for
\* uncommitted changes.
MergeAccepted ==
  /\ Exists(call.commitid)
  /\ BranchKnown
  /\ HeadCommit # NoId
  /\ AlreadyMerged \/ FastForwardable \/ NotRefused

\* The outcome of the merge step follows the order of precedence: nothing to
\* merge, fast-forward, then merge commit or conflict.
InOrderOfPrecedence ==
  /\ last'.outcome \in {"NothingToMergeError", "fastforward", "merged",
                        "MergeConflictsError"}
  /\ AlreadyMerged
     => last'.outcome = "NothingToMergeError" /\ refs' = refs /\ commits' = commits
  /\ ~AlreadyMerged /\ FastForwardable
     => last'.outcome = "fastforward" /\ commits' = commits
  /\ last'.outcome \in {"merged", "MergeConflictsError"}
     <=> ~AlreadyMerged /\ ~FastForwardable
  /\ last'.outcome = "merged" => StoredOne
  /\ last'.outcome = "MergeConflictsError" => refs' = refs /\ commits' = commits

====
